---- MODULE Spec2Model ----
(***************************************************************************)
(* A model of tHashTable<HASH_TYPE, DATA_TYPE> and of tDictionary<T>         *)
(* (source/tools/tHashTable.h): one linked list holding every entry,        *)
(* grouped by hash bucket, and an array of pointers to the first list node  *)
(* of each bucket.  Keys are ints or cStrings (sequences of character       *)
(* codes).                                                                  *)
(*                                                                          *)
(* List nodes are named by their position in the list (1..Len).  A pointer  *)
(* is a position, NULLPTR, ROOT (the list's sentinel node, whose data is    *)
(* NULL) or DANGLING (a node that has been deleted).  Every list primitive  *)
(* renames the pointers it leaves valid, and turns the pointers to a node   *)
(* it deletes into DANGLING, so the naming hides no stale pointer.          *)
(***************************************************************************)
EXTENDS Integers, Sequences, FiniteSets, TLC

\* Bounds of the model.
MaxEntries == 3
MaxKey == 1
MaxTableSize == 2
\* The entries of a table that threads read with no lock, and of a table
\* whose calls are followed turn by turn.
MaxShared == 2
\* The entries of a dictionary.
MaxNames == 2

\* int keys; -1 and 1 share a bucket whatever the table size.
Keys == -1 .. MaxKey
TableSizes == 1 .. MaxTableSize
\* The table copies data and never reads it: two values tell entries apart.
Values == {1, 2}

\* Pointer values that are not list positions.
NULLPTR == 0
ROOT == -1
DANGLING == -2

\* DATA_TYPE() for a built-in DATA_TYPE.
DefaultValue == 0
\* What an uninitialised DATA_TYPE may hold.
Indeterminate == Values \cup {DefaultValue}

VARIABLES
  entry_list,   \* tList<tHashEntry>: sequence of [key, id, data]
  cell_array,   \* tArray<tListNode*>: [0..table_size-1 -> pointer]
  list_it,      \* the one shared iterator: a pointer
  entry_count,
  table_size,
  call,         \* the last call: [op, key, data, size]
  ret,          \* its outcome: [status, out, hit]
  pre,          \* table_size and entry_count before the last call
  shadow,       \* progress of an Add(k,v1); Add(k,v2); Remove(k); Remove(k) run
  HASH_TYPE,    \* the template argument: "int" or "cString"
  lock,         \* the owner's mutex: the thread that holds it, or "free"
  thr,          \* per thread: where it is in its call, and the call's locals
  backup        \* SetTableSize's local backup_list, while the call is running

vars == <<entry_list, cell_array, list_it, entry_count, table_size,
          call, ret, pre, shadow, HASH_TYPE, lock, thr, backup>>

----------------------------------------------------------------------------
(* Arithmetic of the C code. *)

Abs(x) == IF x < 0 THEN -x ELSE x

\* C's %: the remainder of the division truncated towards zero.
TruncRem(a, b) == IF a >= 0 THEN a % b ELSE -((-a) % b)

\* The sum of a cString's character codes.
RECURSIVE CharSum(_)
CharSum(text) == IF text = <<>> THEN 0 ELSE Head(text) + CharSum(Tail(text))

\* The int overload without abs.
HashKeyNoAbs(key, size) ==
  IF HASH_TYPE = "cString" THEN CharSum(key) % size ELSE TruncRem(key, size)

\* The HashKey overload that HASH_TYPE selects.  The unsigned out_hash does
\* not wrap: a string of the model sums to far less than 2^32.
HashKey(key, size) ==
  IF HASH_TYPE = "cString" THEN CharSum(key) % size
  ELSE Abs(TruncRem(key, size))

----------------------------------------------------------------------------
(* tList / tListIterator primitives, on a table record                     *)
(* t = [list, cells, it, count, size, ub].                                 *)

IsNode(t, p) == p \in 1 .. Len(t.list)

Undefined(t) == [t EXCEPT !.ub = TRUE]

ItReset(t) == [t EXCEPT !.it = ROOT]

ItSet(t, p) == [t EXCEPT !.it = p]

AtRoot(t) == t.it = ROOT

\* list_it.Get() == NULL: only the root node carries no data.
GetIsNull(t) == t.it = ROOT

\* *list_it.Get(), for an iterator on a node.
Cur(t) == t.list[t.it]

ItNext(t) ==
  IF t.it = ROOT THEN [t EXCEPT !.it = IF Len(t.list) > 0 THEN 1 ELSE ROOT]
  ELSE IF IsNode(t, t.it)
       THEN [t EXCEPT !.it = IF t.it < Len(t.list) THEN t.it + 1 ELSE ROOT]
       ELSE Undefined(t)

ItPrev(t) ==
  IF t.it = ROOT
  THEN [t EXCEPT !.it = IF Len(t.list) > 0 THEN Len(t.list) ELSE ROOT]
  ELSE IF IsNode(t, t.it)
       THEN [t EXCEPT !.it = IF t.it > 1 THEN t.it - 1 ELSE ROOT]
       ELSE Undefined(t)

InsertAt(s, i, e) == SubSeq(s, 1, i - 1) \o <<e>> \o SubSeq(s, i, Len(s))

RemoveAt(s, i) == SubSeq(s, 1, i - 1) \o SubSeq(s, i + 1, Len(s))

\* entry_list.Insert(list_it, e): a new node right before the iterator's
\* node; before the root, that is at the end of the list.
ListInsert(t, e) ==
  IF t.it = ROOT THEN [t EXCEPT !.list = Append(@, e)]
  ELSE IF IsNode(t, t.it)
       THEN [t EXCEPT
               !.list = InsertAt(@, t.it, e),
               !.cells = [b \in DOMAIN @ |->
                            IF @[b] >= t.it THEN @[b] + 1 ELSE @[b]],
               !.it = @ + 1]
       ELSE Undefined(t)

\* list_it.Remove(): unlinks and deletes the iterator's node; the list moves
\* its iterators on that node to the previous node.  Nothing else is told.
ListRemove(t) ==
  IF IsNode(t, t.it)
  THEN [t EXCEPT
          !.list = RemoveAt(@, t.it),
          !.cells = [b \in DOMAIN @ |->
                       IF @[b] = t.it THEN DANGLING
                       ELSE IF @[b] > t.it THEN @[b] - 1 ELSE @[b]],
          !.it = IF @ > 1 THEN @ - 1 ELSE ROOT]
  ELSE Undefined(t)

----------------------------------------------------------------------------
(* tHashTable, as functions of the table record. *)

NewTable(size) ==
  [list |-> <<>>, cells |-> [b \in 0 .. size - 1 |-> NULLPTR], it |-> ROOT,
   count |-> 0, size |-> size, ub |-> FALSE]

\* The loop of FindEntry: the iterator is on the first node to test.
RECURSIVE ScanBin(_, _, _)
ScanBin(t, bin, key) ==
  IF GetIsNull(t) THEN [t |-> t, node |-> NULLPTR]
  ELSE IF ~IsNode(t, t.it) THEN [t |-> Undefined(t), node |-> NULLPTR]
  ELSE IF Cur(t).id # bin THEN [t |-> t, node |-> NULLPTR]
  ELSE IF Cur(t).key = key THEN [t |-> t, node |-> t.it]
  ELSE ScanBin(ItNext(t), bin, key)

FindEntry(t, key) ==
  LET bin == HashKey(key, t.size)
  IN  IF t.cells[bin] = NULLPTR THEN [t |-> t, node |-> NULLPTR]
      ELSE ScanBin(ItSet(t, t.cells[bin]), bin, key)

\* PlaceEntry without its else branch: every entry goes to the list's end.
PlaceEntryAtEnd(t, e, bin) ==
  LET t2 == ListInsert(ItReset(t), e)
      t3 == ItPrev(t2)
  IN  [t3 EXCEPT !.cells[bin] = t3.it]

\* PlaceEntry that records the position only for a bucket that was empty.
PlaceEntryKeepsHead(t, e, bin) ==
  LET t1 == IF t.cells[bin] = NULLPTR THEN ItReset(t)
            ELSE ItSet(t, t.cells[bin])
      t2 == ListInsert(t1, e)
      t3 == ItPrev(t2)
  IN  IF t.cells[bin] = NULLPTR THEN [t3 EXCEPT !.cells[bin] = t3.it] ELSE t3

\* PlaceEntry that puts the entry behind the bucket's head.
PlaceEntryAfterHead(t, e, bin) ==
  LET t1 == IF t.cells[bin] = NULLPTR THEN ItReset(t)
            ELSE ItNext(ItSet(t, t.cells[bin]))
      t2 == ListInsert(t1, e)
      t3 == ItPrev(t2)
  IN  [t3 EXCEPT !.cells[bin] = t3.it]

\* The placement shared by Add and SetTableSize: the four statements from
\* "if (cell_array[bin] == NULL)" to "cell_array[bin] = list_it.GetPos()".
PlaceEntry(t, e, bin) ==
  LET t1 == IF t.cells[bin] = NULLPTR THEN ItReset(t)
            ELSE ItSet(t, t.cells[bin])
      t2 == ListInsert(t1, e)
      t3 == ItPrev(t2)
  IN  [t3 EXCEPT !.cells[bin] = t3.it]

\* Add without entry_count++.
AddEntryNoCount(t, key, data) ==
  LET bin == HashKey(key, t.size)
      new_entry == [key |-> key, id |-> bin, data |-> data]
  IN  PlaceEntry(t, new_entry, bin)

AddEntry(t, key, data) ==
  LET bin == HashKey(key, t.size)
      new_entry == [key |-> key, id |-> bin, data |-> data]
      t1 == PlaceEntry(t, new_entry, bin)
  IN  [t1 EXCEPT !.count = @ + 1]

\* SetValue that never looks the key up.
SetValueAlwaysAdds(t, key, data) == AddEntry(t, key, data)

SetValueEntry(t, key, data) ==
  LET f == FindEntry(t, key)
  IN  IF f.node = NULLPTR THEN AddEntry(f.t, key, data)
      ELSE IF f.t.ub THEN f.t
      ELSE [f.t EXCEPT !.list[f.node].data = data]

\* The else branch of Remove: the iterator is on the bucket's head, which
\* does not match; out is out_data, still as declared.
RECURSIVE RemoveScan(_, _, _, _)
RemoveScan(t, bin, key, out) ==
  LET t1 == ItNext(t)
  IN  IF t1.ub THEN [t |-> t1, out |-> out, hit |-> FALSE]
      ELSE IF GetIsNull(t1) \/ Cur(t1).id # bin
           THEN [t |-> t1, out |-> out, hit |-> FALSE]
      ELSE IF Cur(t1).key = key
           THEN [t |-> [ListRemove(t1) EXCEPT !.count = @ - 1],
                 out |-> Cur(t1).data, hit |-> TRUE]
      ELSE RemoveScan(t1, bin, key, out)

\* Remove whose head branch always empties the bucket's cell.
RemoveFoundClearsCell(t, key, uninit) ==
  LET bin == HashKey(key, t.size)
      t0 == ItSet(t, t.cells[bin])
  IN  IF ~IsNode(t0, t0.it)
      THEN [t |-> Undefined(t0), out |-> uninit, hit |-> FALSE]
      ELSE IF Cur(t0).key = key
      THEN LET t3 == [ItNext(ListRemove(t0)) EXCEPT !.count = @ - 1]
           IN  [t |-> [t3 EXCEPT !.cells[bin] = NULLPTR],
                out |-> Cur(t0).data, hit |-> TRUE]
      ELSE RemoveScan(t0, bin, key, uninit)

\* Remove whose head branch leaves the bucket's cell as it was.
RemoveFoundStaleCell(t, key, uninit) ==
  LET bin == HashKey(key, t.size)
      t0 == ItSet(t, t.cells[bin])
  IN  IF ~IsNode(t0, t0.it)
      THEN [t |-> Undefined(t0), out |-> uninit, hit |-> FALSE]
      ELSE IF Cur(t0).key = key
      THEN [t |-> [ItNext(ListRemove(t0)) EXCEPT !.count = @ - 1],
            out |-> Cur(t0).data, hit |-> TRUE]
      ELSE RemoveScan(t0, bin, key, uninit)

\* Remove that counts an entry out whether or not it removed one.
RemoveFoundMiscount(t, key, uninit) ==
  LET bin == HashKey(key, t.size)
      t0 == ItSet(t, t.cells[bin])
  IN  IF ~IsNode(t0, t0.it)
      THEN [t |-> Undefined(t0), out |-> uninit, hit |-> FALSE]
      ELSE IF Cur(t0).key = key
      THEN LET t3 == [ItNext(ListRemove(t0)) EXCEPT !.count = @ - 1]
               next_in_bin == ~AtRoot(t3) /\ Cur(t3).id = bin
           IN  [t |-> [t3 EXCEPT !.cells[bin] =
                                    IF next_in_bin THEN t3.it ELSE NULLPTR],
                out |-> Cur(t0).data, hit |-> TRUE]
      ELSE LET r == RemoveScan(t0, bin, key, uninit)
           IN  IF r.hit THEN r ELSE [r EXCEPT !.t.count = @ - 1]

\* Remove that takes the head of the bucket whatever its key.
RemoveFoundTakesHead(t, key, uninit) ==
  LET bin == HashKey(key, t.size)
      t0 == ItSet(t, t.cells[bin])
  IN  IF ~IsNode(t0, t0.it)
      THEN [t |-> Undefined(t0), out |-> uninit, hit |-> FALSE]
      ELSE LET t3 == [ItNext(ListRemove(t0)) EXCEPT !.count = @ - 1]
               next_in_bin == ~AtRoot(t3) /\ Cur(t3).id = bin
           IN  [t |-> [t3 EXCEPT !.cells[bin] =
                                    IF next_in_bin THEN t3.it ELSE NULLPTR],
                out |-> Cur(t0).data, hit |-> TRUE]

\* Remove past its assertion: cell_array[bin] is not NULL.  uninit is what
\* the declaration "DATA_TYPE out_data;" leaves in out_data.
RemoveFound(t, key, uninit) ==
  LET bin == HashKey(key, t.size)
      t0 == ItSet(t, t.cells[bin])
  IN  IF ~IsNode(t0, t0.it)
      THEN [t |-> Undefined(t0), out |-> uninit, hit |-> FALSE]
      ELSE IF Cur(t0).key = key
      THEN LET t1 == ListRemove(t0)
               t2 == ItNext(t1)
               t3 == [t2 EXCEPT !.count = @ - 1]
               next_in_bin == ~AtRoot(t3) /\ Cur(t3).id = bin
           IN  [t |-> [t3 EXCEPT !.cells[bin] =
                                    IF next_in_bin THEN t3.it ELSE NULLPTR],
                out |-> Cur(t0).data, hit |-> TRUE]
      ELSE RemoveScan(t0, bin, key, uninit)

\* The assertion compiled out.
RemoveAssertionOff(t, key) == TRUE

\* assert(cell_array[bin] != NULL)
RemoveAssertion(t, key) == t.cells[HashKey(key, t.size)] # NULLPTR

RemoveEntry(t, key, uninit) ==
  IF RemoveAssertion(t, key)
  THEN [status |-> "ok"] @@ RemoveFound(t, key, uninit)
  ELSE [status |-> "abort", t |-> t, out |-> DefaultValue, hit |-> FALSE]

\* The entry keeps the id of the old table size.
RehashedStale(cur_entry, bin) == cur_entry

\* cur_entry->id = bin
Rehashed(cur_entry, bin) == [cur_entry EXCEPT !.id = bin]

\* The loop of SetTableSize over backup_list; Pop() takes its first entry.
RECURSIVE Reinsert(_, _)
Reinsert(t, backup_list) ==
  IF Len(backup_list) = 0 THEN t
  ELSE LET cur_entry == Head(backup_list)
           bin == HashKey(cur_entry.key, t.size)
       IN  Reinsert(PlaceEntry(t, Rehashed(cur_entry, bin), bin),
                    Tail(backup_list))

\* backup_list.Transfer(entry_list): entry_list is left empty and, unless it
\* was empty already, its iterators are reset.
TransferOut(t) ==
  [t EXCEPT !.list = <<>>,
            !.it = IF Len(t.list) = 0 THEN @ ELSE ROOT]

\* SetTableSize whose loop stops one entry early.
ResizeTableOffByOne(t, _hash) ==
  LET t1 == [t EXCEPT !.size = _hash,
                      !.cells = [b \in 0 .. _hash - 1 |-> NULLPTR]]
  IN  Reinsert(TransferOut(t1), SubSeq(t.list, 1, Len(t.list) - 1))

ResizeTable(t, _hash) ==
  LET t1 == [t EXCEPT !.size = _hash,
                      !.cells = [b \in 0 .. _hash - 1 |-> NULLPTR]]
  IN  Reinsert(TransferOut(t1), t.list)

\* The loop of ClearAll.
RECURSIVE ClearLoop(_)
ClearLoop(t) ==
  LET t1 == ItNext(t)
  IN  IF t1.ub \/ GetIsNull(t1) THEN t1 ELSE ClearLoop(ListRemove(t1))

\* ClearAll without cell_array.SetAll(NULL).
ClearTableKeepsCells(t) ==
  LET t1 == ClearLoop(ItReset(t))
  IN  [t1 EXCEPT !.count = 0]

ClearTable(t) ==
  LET t1 == ClearLoop(ItReset(t))
  IN  [t1 EXCEPT !.count = 0,
                 !.cells = [b \in DOMAIN @ |-> NULLPTR]]

\* cString's operator<: the order of strcmp.
TextLess(a, b) ==
  \E i \in 1 .. Len(b) :
    /\ \A j \in 1 .. i - 1 : j <= Len(a) /\ a[j] = b[j]
    /\ i > Len(a) \/ a[i] < b[i]

\* cString::Pop(delim) takes the front of the string up to the first delim,
\* and the delim with it; the whole string when it holds no delim.
DelimAt(text, delim) ==
  IF \E i \in 1 .. Len(text) : text[i] = delim
  THEN CHOOSE i \in 1 .. Len(text) :
         text[i] = delim /\ \A j \in 1 .. i - 1 : text[j] # delim
  ELSE 0

\* What Pop(delim) returns.
Popped(text, delim) ==
  IF DelimAt(text, delim) = 0 THEN text
  ELSE SubSeq(text, 1, DelimAt(text, delim) - 1)

\* What Pop(delim) leaves in the string.
AfterPop(text, delim) ==
  IF DelimAt(text, delim) = 0 THEN <<>>
  ELSE SubSeq(text, DelimAt(text, delim) + 1, Len(text))

Digits == 48 .. 57

\* The text is a decimal number.
IsNumber(text) == text # <<>> /\ \A i \in 1 .. Len(text) : text[i] \in Digits

RECURSIVE Decimal(_)
Decimal(text) ==
  IF text = <<>> THEN 0
  ELSE 10 * Decimal(SubSeq(text, 1, Len(text) - 1)) + (text[Len(text)] - 48)

\* What cStringUtil::Convert(text, int) may return.  It returns an int and
\* nothing else; for a text that is no number any int stands for the one it
\* picks.
Convert(text) == IF IsNumber(text) THEN {Decimal(text)} ELSE Indeterminate

Min(a, b) == IF a < b THEN a ELSE b

\* cStringUtil::EditDistance: the Levenshtein distance.
RECURSIVE EditDistance(_, _)
EditDistance(a, b) ==
  IF a = <<>> THEN Len(b)
  ELSE IF b = <<>> THEN Len(a)
  ELSE Min(Min(EditDistance(Tail(a), b) + 1, EditDistance(a, Tail(b)) + 1),
           EditDistance(Tail(a), Tail(b))
             + (IF Head(a) = Head(b) THEN 0 ELSE 1))

\* tListIterator::Next() on a list given as a sequence: the position after p.
NextIn(list, p) ==
  IF p = ROOT THEN IF Len(list) > 0 THEN 1 ELSE ROOT
  ELSE IF p < Len(list) THEN p + 1 ELSE ROOT

\* list.Insert(it, e) with the iterator on position p.
InsertIn(list, p, e) == IF p = ROOT THEN Append(list, e) ELSE InsertAt(list, p, e)

\* The comparison turned round.
KeyGreaterFlipped(cur_key, other) ==
  IF HASH_TYPE = "cString" THEN TextLess(cur_key, other) ELSE cur_key < other

\* cur_key > *(key_it.Get())
KeyGreater(cur_key, other) ==
  IF HASH_TYPE = "cString" THEN TextLess(other, cur_key) ELSE cur_key > other

\* The inner loop of AsLists, from the evaluation of key_it.Next().
RECURSIVE AsListsSeek(_, _, _, _, _)
AsListsSeek(key_list, value_list, cur_key, key_it, value_it) ==
  LET next == NextIn(key_list, key_it)
  IN  IF next # ROOT /\ KeyGreater(cur_key, key_list[next])
      THEN AsListsSeek(key_list, value_list, cur_key, next,
                       NextIn(value_list, value_it))
      ELSE [key_it |-> next, value_it |-> value_it]

\* The outer loop of AsLists, from the evaluation of list_it.Next().
RECURSIVE AsListsLoop(_, _, _)
AsListsLoop(t, key_list, value_list) ==
  LET t1 == ItNext(t)
  IN  IF t1.ub \/ GetIsNull(t1)
      THEN [t |-> t1, key_list |-> key_list, value_list |-> value_list]
      ELSE LET cur_key == Cur(t1).key
               cur_value == Cur(t1).data
               at == AsListsSeek(key_list, value_list, cur_key, ROOT,
                                 NextIn(value_list, ROOT))
           IN  AsListsLoop(t1, InsertIn(key_list, at.key_it, cur_key),
                           InsertIn(value_list, at.value_it, cur_value))

\* AsLists(key_list, value_list) with both lists empty, as it asserts.
AsLists(t) == AsListsLoop(ItReset(t), <<>>, <<>>)

\* tList::Push(e): the new node goes to the front of the list, from where
\* Pop() takes one.
Push(list, e) == <<e>> \o list

\* The loop of GetValues(tList&).
RECURSIVE GetValuesListLoop(_, _)
GetValuesListLoop(t, value_list) ==
  LET t1 == ItNext(t)
  IN  IF t1.ub \/ GetIsNull(t1) THEN [t |-> t1, values |-> value_list]
      ELSE GetValuesListLoop(t1, Push(value_list, Cur(t1).data))

\* GetValues(tList<DATA_TYPE>& value_list)
GetValuesList(t, value_list) == GetValuesListLoop(ItReset(t), value_list)

\* The loop of GetValues(tArray&); value_array[idx] is the sequence's
\* element idx + 1.
RECURSIVE GetValuesArrayLoop(_, _, _)
GetValuesArrayLoop(t, value_array, idx) ==
  LET t1 == ItNext(t)
  IN  IF t1.ub \/ GetIsNull(t1) THEN [t |-> t1, values |-> value_array]
      ELSE IF idx >= Len(value_array)
           THEN [t |-> Undefined(t1), values |-> value_array]
      ELSE GetValuesArrayLoop(
             t1, [value_array EXCEPT ![idx + 1] = Cur(t1).data], idx + 1)

\* GetValues(tArray&) that leaves the first element of the array out.
GetValuesArrayShifted(t) ==
  LET r == GetValuesArrayLoop(ItReset(t),
                              [i \in 1 .. t.count + 1 |-> DefaultValue], 1)
  IN  [r EXCEPT !.values = SubSeq(@, 1, t.count)]

\* GetValues(tArray<DATA_TYPE>& value_array)
GetValuesArray(t) ==
  GetValuesArrayLoop(ItReset(t), [i \in 1 .. t.count |-> DefaultValue], 0)

\* tDictionary::Load that adds without looking the key up.
LoadEntryAdds(t, load_string, assign, value) ==
  AddEntry(t, Popped(load_string, assign), value)

\* tDictionary::Load, with value what Convert has returned for the rest of
\* load_string.
LoadEntry(t, load_string, assign, value) ==
  SetValueEntry(t, Popped(load_string, assign), value)

\* The loop of NearMatch over the keys from position i on.
RECURSIVE NearMatchLoop(_, _, _, _, _)
NearMatchLoop(keys, i, name, best_match, best_dist) ==
  IF i > Len(keys) THEN best_match
  ELSE LET dist == EditDistance(name, keys[i])
       IN  IF dist < best_dist
           THEN NearMatchLoop(keys, i + 1, name, keys[i], dist)
           ELSE NearMatchLoop(keys, i + 1, name, best_match, best_dist)

\* The keys of the entry list, in its order.
RECURSIVE KeysOf(_)
KeysOf(list) == IF list = <<>> THEN <<>> ELSE <<Head(list).key>> \o KeysOf(Tail(list))

\* NearMatch that takes a key at the distance of name's length too.
NearMatchLax(t, name) ==
  LET lists == AsLists(t)
  IN  [t |-> lists.t,
       best_match |-> NearMatchLoop(lists.key_list, 1, name, <<>>,
                                    Len(name) + 1)]

\* NearMatch that walks the keys in the order of the entry list.
NearMatchUnsorted(t, name) ==
  LET lists == AsLists(t)
  IN  [t |-> lists.t,
       best_match |-> NearMatchLoop(KeysOf(t.list), 1, name, <<>>, Len(name))]

\* tDictionary::NearMatch
NearMatch(t, name) ==
  LET lists == AsLists(t)
  IN  [t |-> lists.t,
       best_match |-> NearMatchLoop(lists.key_list, 1, name, <<>>, Len(name))]

----------------------------------------------------------------------------
(* Find and Add one statement at a time, for calls of several threads.  s  *)
(* holds the locals of the call: [pc, key, data, bin, out, alone].         *)

Moved(t, s, pc) == [t |-> t, s |-> [s EXCEPT !.pc = pc]]

Returned(t, s, out) == [t |-> t, s |-> [s EXCEPT !.pc = "done", !.out = out]]

\* FindEntry whose loop steps the iterator twice.
FindEntryStepSkips(t, s) ==
  IF s.pc = "find"
  THEN LET bin == HashKey(s.key, t.size)
       IN  IF t.cells[bin] = NULLPTR THEN Returned(t, s, <<FALSE>>)
           ELSE Moved(ItSet(t, t.cells[bin]), [s EXCEPT !.bin = bin], "cond")
  ELSE IF s.pc = "cond"
  THEN IF GetIsNull(t) THEN Returned(t, s, <<FALSE>>)
       ELSE IF ~IsNode(t, t.it) THEN Returned(Undefined(t), s, <<FALSE>>)
       ELSE IF Cur(t).id # s.bin THEN Returned(t, s, <<FALSE>>)
       ELSE Moved(t, s, "key")
  ELSE IF s.pc = "key"
  THEN IF ~IsNode(t, t.it) THEN Returned(Undefined(t), s, <<FALSE>>)
       ELSE IF Cur(t).key = s.key THEN Moved(t, s, "return")
       ELSE Moved(t, s, "next")
  ELSE IF s.pc = "return"
  THEN IF GetIsNull(t) THEN Returned(t, s, <<FALSE>>)
       ELSE IF ~IsNode(t, t.it) THEN Returned(Undefined(t), s, <<FALSE>>)
       ELSE Returned(t, s, <<TRUE, Cur(t).data>>)
  ELSE Moved(ItNext(ItNext(t)), s, "cond")

\* One step of Find(key, out_data), which is FindEntry and the copy of the
\* entry's data.  "find": the bucket's cell is read and the iterator set;
\* "cond": the loop's condition; "key": the comparison of the keys;
\* "return": return list_it.Get(), and Find's use of it; "next":
\* list_it.Next().
FindEntryStep(t, s) ==
  IF s.pc = "find"
  THEN LET bin == HashKey(s.key, t.size)
       IN  IF t.cells[bin] = NULLPTR THEN Returned(t, s, <<FALSE>>)
           ELSE Moved(ItSet(t, t.cells[bin]), [s EXCEPT !.bin = bin], "cond")
  ELSE IF s.pc = "cond"
  THEN IF GetIsNull(t) THEN Returned(t, s, <<FALSE>>)
       ELSE IF ~IsNode(t, t.it) THEN Returned(Undefined(t), s, <<FALSE>>)
       ELSE IF Cur(t).id # s.bin THEN Returned(t, s, <<FALSE>>)
       ELSE Moved(t, s, "key")
  ELSE IF s.pc = "key"
  THEN IF ~IsNode(t, t.it) THEN Returned(Undefined(t), s, <<FALSE>>)
       ELSE IF Cur(t).key = s.key THEN Moved(t, s, "return")
       ELSE Moved(t, s, "next")
  ELSE IF s.pc = "return"
  THEN IF GetIsNull(t) THEN Returned(t, s, <<FALSE>>)
       ELSE IF ~IsNode(t, t.it) THEN Returned(Undefined(t), s, <<FALSE>>)
       ELSE Returned(t, s, <<TRUE, Cur(t).data>>)
  ELSE Moved(ItNext(t), s, "cond")

\* One statement of Add.  "add": the iterator is reset or set to the
\* bucket's head; "insert": entry_list.Insert; "prev": list_it.Prev();
\* "record": cell_array[bin] = list_it.GetPos() and entry_count++.
AddStep(t, s) ==
  IF s.pc = "add"
  THEN LET bin == HashKey(s.key, t.size)
       IN  Moved(IF t.cells[bin] = NULLPTR THEN ItReset(t)
                 ELSE ItSet(t, t.cells[bin]),
                 [s EXCEPT !.bin = bin], "insert")
  ELSE IF s.pc = "insert"
  THEN Moved(ListInsert(t, [key |-> s.key, id |-> s.bin, data |-> s.data]),
             s, "prev")
  ELSE IF s.pc = "prev"
  THEN Moved(ItPrev(t), s, "record")
  ELSE Moved([t EXCEPT !.cells[s.bin] = t.it, !.count = @ + 1], s, "done")

----------------------------------------------------------------------------
(* The table as a state machine: one action per public operation. *)

Table ==
  [list |-> entry_list, cells |-> cell_array, it |-> list_it,
   count |-> entry_count, size |-> table_size, ub |-> FALSE]

NoCall == [op |-> "new", key |-> 0, data |-> DefaultValue, size |-> 0]
Ok == [status |-> "ok", out |-> DefaultValue, hit |-> FALSE]
NoShadow == [phase |-> 0, key |-> 0, v1 |-> DefaultValue, v2 |-> DefaultValue]

\* The key has an entry in the list.
Stored(list, key) == \E i \in 1 .. Len(list) : list[i].key = key

\* How far the calls Add(k,v1), Add(k,v2), Remove(k), Remove(k) on one key k,
\* not stored at the first of them, have come with this call.  Lookups may
\* come in between; any other call ends the run.
ShadowAfter(op, key, data, status) ==
  IF status # "ok" THEN NoShadow
  ELSE IF op = "Find" THEN shadow
  ELSE IF op = "Add" /\ shadow.phase = 1 /\ key = shadow.key
       THEN [shadow EXCEPT !.phase = 2, !.v2 = data]
  ELSE IF op = "Add" /\ ~Stored(entry_list, key)
       THEN [phase |-> 1, key |-> key, v1 |-> data, v2 |-> DefaultValue]
  ELSE IF op = "Remove" /\ shadow.phase \in {2, 3} /\ key = shadow.key
       THEN [shadow EXCEPT !.phase = @ + 1]
  ELSE NoShadow

\* The state after a call that left the table as t.
Becomes(t, c, r) ==
  /\ entry_list' = t.list
  /\ cell_array' = t.cells
  /\ list_it' = t.it
  /\ entry_count' = t.count
  /\ table_size' = t.size
  /\ call' = c
  /\ ret' = [r EXCEPT !.status = IF t.ub THEN "undefined" ELSE @]
  /\ pre' = [size |-> table_size, count |-> entry_count]
  /\ shadow' = ShadowAfter(c.op, c.key, c.data, r.status)
  /\ UNCHANGED <<HASH_TYPE, lock, thr, backup>>

Running == ret.status = "ok"

Threads == {"w", "r1", "r2"}
Readers == {"r1", "r2"}

\* A thread that is in no call.
Idle ==
  [pc |-> "idle", op |-> "none", key |-> 0, data |-> DefaultValue, bin |-> 0,
   out |-> <<>>, alone |-> TRUE]

\* No thread is in a call.
Quiet ==
  /\ lock = "free"
  /\ thr = [p \in Threads |-> Idle]
  /\ backup = <<>>

\* A table just constructed with this size.
Constructed(size) ==
  /\ entry_list = NewTable(size).list
  /\ cell_array = NewTable(size).cells
  /\ list_it = NewTable(size).it
  /\ entry_count = NewTable(size).count
  /\ table_size = NewTable(size).size
  /\ call = NoCall
  /\ ret = Ok
  /\ pre = [size |-> size, count |-> 0]
  /\ shadow = NoShadow

Init ==
  \E size \in TableSizes :
    /\ Constructed(size)
    /\ HASH_TYPE = "int"
    /\ Quiet

Add ==
  \E key \in Keys, data \in Values :
    /\ Running
    /\ Len(entry_list) < MaxEntries
    /\ Becomes(AddEntry(Table, key, data),
               [NoCall EXCEPT !.op = "Add", !.key = key, !.data = data], Ok)

SetValue ==
  \E key \in Keys, data \in Values :
    /\ Running
    /\ Len(entry_list) < MaxEntries \/ Stored(entry_list, key)
    /\ Becomes(SetValueEntry(Table, key, data),
               [NoCall EXCEPT !.op = "SetValue", !.key = key, !.data = data],
               Ok)

Find ==
  \E key \in Keys :
    /\ Running
    /\ LET f == FindEntry(Table, key)
       IN  Becomes(f.t, [NoCall EXCEPT !.op = "Find", !.key = key],
                   IF f.node = NULLPTR THEN Ok
                   ELSE [Ok EXCEPT !.hit = TRUE,
                                   !.out = f.t.list[f.node].data])

Remove ==
  \E key \in Keys, uninit \in Indeterminate :
    /\ Running
    /\ LET r == RemoveEntry(Table, key, uninit)
       IN  \* out_data's first content shows only when it is returned as is
           /\ (r.status = "ok" /\ ~r.hit) \/ uninit = DefaultValue
           /\ Becomes(r.t, [NoCall EXCEPT !.op = "Remove", !.key = key],
                      [status |-> r.status, out |-> r.out, hit |-> r.hit])

SetTableSize ==
  \E _hash \in TableSizes :
    /\ Running
    /\ Becomes(ResizeTable(Table, _hash),
               [NoCall EXCEPT !.op = "SetTableSize", !.size = _hash], Ok)

ClearAll ==
  /\ Running
  /\ Becomes(ClearTable(Table), [NoCall EXCEPT !.op = "ClearAll"], Ok)

Next == Add \/ SetValue \/ Find \/ Remove \/ SetTableSize \/ ClearAll

Spec == Init /\ [][Next]_vars

----------------------------------------------------------------------------
(* The table shared by threads.  A thread's call is a run of steps; the    *)
(* steps of different threads interleave as far as the lock lets them.     *)

\* The table's fields become those of t; the history of calls stands still.
TableBecomes(t) ==
  /\ entry_list' = t.list
  /\ cell_array' = t.cells
  /\ list_it' = t.it
  /\ entry_count' = t.count
  /\ table_size' = t.size
  /\ UNCHANGED <<call, ret, pre, shadow, HASH_TYPE, backup>>

\* Thread p has made a step that left the table as r.t and its locals as
\* r.s.  A thread in a call is no longer alone once another thread's step
\* has changed the table or its iterator.
After(p, r) ==
  /\ TableBecomes(r.t)
  /\ thr' = [q \in Threads |->
               IF q = p
               THEN IF r.t.ub THEN [r.s EXCEPT !.pc = "undefined"] ELSE r.s
               ELSE IF thr[q].pc # "idle" /\ [r.t EXCEPT !.ub = FALSE] # Table
                    THEN [thr[q] EXCEPT !.alone = FALSE]
                    ELSE thr[q]]
  /\ UNCHANGED lock

\* A lock that everybody gets.
LockIgnored == TRUE

\* Apto::MutexAutoLock lock(m_mutex) returns once no thread holds the mutex.
LockAvailable == lock = "free"

\* Thread p takes the lock and enters a call with locals s.
Begin(p, s) ==
  /\ thr[p].pc = "idle"
  /\ LockAvailable
  /\ lock' = p
  /\ thr' = [thr EXCEPT ![p] = s]
  /\ UNCHANGED <<entry_list, cell_array, list_it, entry_count, table_size,
                 call, ret, pre, shadow, HASH_TYPE, backup>>

BeginAdd ==
  \E key \in Keys, data \in Values :
    /\ Len(entry_list) < MaxEntries
    /\ Begin("w", [Idle EXCEPT !.pc = "add", !.op = "Add", !.key = key,
                               !.data = data])

BeginWrite ==
  \E op \in {"SetValue", "Remove", "SetTableSize"} :
    Begin("w", [Idle EXCEPT !.pc = "call", !.op = op])

BeginFind ==
  \E p \in Readers, key \in Keys :
    Begin(p, [Idle EXCEPT !.pc = "find", !.op = "Find", !.key = key])

BeginAsLists ==
  \E p \in Readers : Begin(p, [Idle EXCEPT !.pc = "call", !.op = "AsLists"])

InSteps(p, op) ==
  thr[p].op = op /\ thr[p].pc \notin {"idle", "call", "done", "undefined"}

StepFind == \E p \in Readers :
  InSteps(p, "Find") /\ After(p, FindEntryStep(Table, thr[p]))

StepAdd == InSteps("w", "Add") /\ After("w", AddStep(Table, thr["w"]))

\* SetValue, Remove and SetTableSize, each in one step of its thread.
StepWrite ==
  /\ thr["w"].pc = "call"
  /\ \/ \E key \in Keys, data \in Values :
          /\ thr["w"].op = "SetValue"
          /\ Len(entry_list) < MaxEntries \/ Stored(entry_list, key)
          /\ After("w", Moved(SetValueEntry(Table, key, data), thr["w"],
                              "done"))
     \/ \E key \in Keys :
          /\ thr["w"].op = "Remove"
          /\ RemoveAssertion(Table, key)
          /\ After("w", Moved(RemoveFound(Table, key, DefaultValue).t,
                              thr["w"], "done"))
     \/ \E _hash \in TableSizes :
          /\ thr["w"].op = "SetTableSize"
          /\ After("w", Moved(ResizeTable(Table, _hash), thr["w"], "done"))

StepAsLists == \E p \in Readers :
  /\ thr[p].pc = "call"
  /\ thr[p].op = "AsLists"
  /\ After(p, Moved(AsLists(Table).t, thr[p], "done"))

\* The call returns and its lock goes out of scope.
Release == \E p \in Threads :
  /\ thr[p].pc = "done"
  /\ lock' = "free"
  /\ thr' = [thr EXCEPT ![p] = Idle]
  /\ UNCHANGED <<entry_list, cell_array, list_it, entry_count, table_size,
                 call, ret, pre, shadow, HASH_TYPE, backup>>

NextLocked ==
  \/ BeginAdd \/ BeginWrite \/ BeginFind \/ BeginAsLists
  \/ StepAdd \/ StepWrite \/ StepFind \/ StepAsLists
  \/ Release

\* One writer and two readers, every call under the owner's lock.
SpecLocked == Init /\ [][NextLocked]_vars

----------------------------------------------------------------------------
(* tDictionary<int>: the table with cString keys, and what tDictionary     *)
(* adds to it.                                                             *)

\* char assign = '='
Assign == 61

\* "a", "ab", "ba": the last two share a bucket whatever the size.
Names == {<<97>>, <<97, 98>>, <<98, 97>>}

\* "", "a", "ab", "aa", "bb"
Queries == {<<>>, <<97>>, <<97, 98>>, <<97, 97>>, <<98, 98>>}

\* "a=1", "a=2", "a=b", "a=1=2", "a", "ab=1"
LoadStrings ==
  {<<97, 61, 49>>, <<97, 61, 50>>, <<97, 61, 98>>, <<97, 61, 49, 61, 50>>,
   <<97>>, <<97, 98, 61, 49>>}

InitText ==
  \E size \in TableSizes :
    /\ Constructed(size)
    /\ HASH_TYPE = "cString"
    /\ Quiet

\* The state after a call on the dictionary that left its table as t.
TextBecomes(t, c, r) ==
  /\ entry_list' = t.list
  /\ cell_array' = t.cells
  /\ list_it' = t.it
  /\ entry_count' = t.count
  /\ table_size' = t.size
  /\ call' = c
  /\ ret' = [r EXCEPT !.status = IF t.ub THEN "undefined" ELSE @]
  /\ pre' = [size |-> table_size, count |-> entry_count]
  /\ UNCHANGED <<shadow, HASH_TYPE, lock, thr, backup>>

TextAdd ==
  \E name \in Names, data \in Values :
    /\ Running
    /\ Len(entry_list) < MaxNames
    /\ TextBecomes(AddEntry(Table, name, data),
                   [NoCall EXCEPT !.op = "Add", !.key = name, !.data = data],
                   Ok)

TextLoad ==
  \E load_string \in LoadStrings :
    \E value \in Convert(AfterPop(load_string, Assign)) :
      /\ Running
      /\ \/ Len(entry_list) < MaxNames
         \/ Stored(entry_list, Popped(load_string, Assign))
      /\ TextBecomes(LoadEntry(Table, load_string, Assign, value),
                     [NoCall EXCEPT !.op = "Load", !.key = load_string,
                                    !.data = value],
                     Ok)

TextSetHash ==
  \E _hash \in TableSizes :
    /\ Running
    /\ TextBecomes(ResizeTable(Table, _hash),
                   [NoCall EXCEPT !.op = "SetHash", !.size = _hash], Ok)

TextNearMatch ==
  \E name \in Queries :
    /\ Running
    /\ LET r == NearMatch(Table, name)
       IN  TextBecomes(r.t, [NoCall EXCEPT !.op = "NearMatch", !.key = name],
                       [Ok EXCEPT !.out = r.best_match])

TextAsLists ==
  /\ Running
  /\ LET r == AsLists(Table)
     IN  TextBecomes(r.t, [NoCall EXCEPT !.op = "AsLists"],
                     [Ok EXCEPT !.out = <<r.key_list, r.value_list>>])

\* Both forms of GetValues, one after the other, the first on an empty list.
TextGetValues ==
  /\ Running
  /\ LET r1 == GetValuesList(Table, <<>>)
         r2 == GetValuesArray(r1.t)
     IN  TextBecomes(r2.t, [NoCall EXCEPT !.op = "GetValues"],
                     [Ok EXCEPT !.out = <<r1.values, r2.values>>])

NextText ==
  \/ TextAdd \/ TextLoad \/ TextSetHash
  \/ TextNearMatch \/ TextAsLists \/ TextGetValues

SpecText == InitText /\ [][NextText]_vars

----------------------------------------------------------------------------
(* SetTableSize one re-insertion at a time, with the allocation of a list  *)
(* node that may fail.                                                     *)

\* The state of a SetTableSize that is under way or has just ended.
Resizing(t, backup_list, status) ==
  /\ entry_list' = t.list
  /\ cell_array' = t.cells
  /\ list_it' = t.it
  /\ entry_count' = t.count
  /\ table_size' = t.size
  /\ backup' = backup_list
  /\ ret' = [Ok EXCEPT !.status = status]
  /\ UNCHANGED <<shadow, HASH_TYPE, lock, thr>>

ResizeFill ==
  \E key \in Keys, data \in Values :
    /\ Running
    /\ Len(entry_list) < MaxEntries
    /\ Resizing(AddEntry(Table, key, data), backup, "ok")
    /\ UNCHANGED <<call, pre>>

\* From the entry of SetTableSize to backup_list.Transfer(entry_list).
ResizeBegin ==
  \E _hash \in TableSizes :
    /\ Running
    /\ Resizing(TransferOut([Table EXCEPT
                               !.size = _hash,
                               !.cells = [b \in 0 .. _hash - 1 |-> NULLPTR]]),
                entry_list, "running")
    /\ call' = [NoCall EXCEPT !.op = "SetTableSize", !.size = _hash]
    /\ pre' = [size |-> table_size, count |-> entry_count,
               list |-> entry_list, cells |-> cell_array]

\* One turn of the loop.
ResizeStep ==
  /\ ret.status = "running"
  /\ backup # <<>>
  /\ LET cur_entry == Head(backup)
         bin == HashKey(cur_entry.key, table_size)
     IN  Resizing(PlaceEntry(Table, Rehashed(cur_entry, bin), bin),
                  Tail(backup), "running")
  /\ UNCHANGED <<call, pre>>

\* A turn of the loop in which entry_list.Insert cannot allocate its node:
\* the exception leaves SetTableSize, and backup_list goes out of scope
\* with the entries that were still in it.
ResizeFail ==
  /\ ret.status = "running"
  /\ backup # <<>>
  /\ LET bin == HashKey(Head(backup).key, table_size)
     IN  Resizing(IF cell_array[bin] = NULLPTR THEN ItReset(Table)
                  ELSE ItSet(Table, cell_array[bin]),
                  <<>>, "failed")
  /\ UNCHANGED <<call, pre>>

\* backup_list is empty: SetTableSize returns.
ResizeEnd ==
  /\ ret.status = "running"
  /\ backup = <<>>
  /\ Resizing(Table, backup, "ok")
  /\ UNCHANGED <<call, pre>>

NextResize ==
  ResizeFill \/ ResizeBegin \/ ResizeStep \/ ResizeFail \/ ResizeEnd

SpecResize == Init /\ [][NextResize]_vars

\* A reader enters Find with no lock.
EnterFind ==
  \E p \in Readers, key \in Keys :
    /\ thr[p].pc = "idle"
    /\ thr' = [thr EXCEPT ![p] = [Idle EXCEPT !.pc = "find", !.op = "Find",
                                              !.key = key]]
    /\ UNCHANGED <<entry_list, cell_array, list_it, entry_count, table_size,
                   call, ret, pre, shadow, HASH_TYPE, lock, backup>>

\* Find returns.
LeaveFind == \E p \in Readers :
  /\ thr[p].pc = "done"
  /\ thr' = [thr EXCEPT ![p] = Idle]
  /\ UNCHANGED <<entry_list, cell_array, list_it, entry_count, table_size,
                 call, ret, pre, shadow, HASH_TYPE, lock, backup>>

\* The table is filled while no reader is in a call.
FillAdd ==
  \E key \in Keys, data \in Values :
    /\ \A p \in Threads : thr[p].pc = "idle"
    /\ Len(entry_list) < MaxShared
    /\ TableBecomes(AddEntry(Table, key, data))
    /\ UNCHANGED <<lock, thr>>

NextUnlocked == FillAdd \/ EnterFind \/ StepFind \/ LeaveFind

\* Two readers on one table with no lock.
SpecUnlocked == Init /\ [][NextUnlocked]_vars

----------------------------------------------------------------------------
(* What the claims speak of. *)

Positions == 1 .. Len(entry_list)

\* The position of the first entry with this key, 0 when there is none.
FirstWith(list, key) ==
  IF Stored(list, key)
  THEN CHOOSE i \in 1 .. Len(list) :
         /\ list[i].key = key
         /\ \A j \in 1 .. i - 1 : list[j].key # key
  ELSE 0

BinOf(key) == HashKey(key, table_size)

\* The outcome of Find(key, out_data) on table t: <<TRUE, out_data>> or
\* <<FALSE>>.
FindResultOn(t, key) ==
  LET f == FindEntry(t, key)
  IN  IF f.node = NULLPTR THEN <<FALSE>>
      ELSE <<TRUE, t.list[f.node].data>>

FindResult(key) == FindResultOn(Table, key)

\* No call has dereferenced a pointer that is not a live node.
NoUndefined == ret.status # "undefined"

----------------------------------------------------------------------------
\* C1: in every reachable state the entries that carry one bucket id lie in
\* one contiguous run of the entry list: no entry of another bucket lies
\* between two entries of the same bucket.
GroupingInvariant ==
  \A i \in Positions : \A j \in Positions :
    (i < j /\ entry_list[i].id = entry_list[j].id)
      => \A m \in i .. j : entry_list[m].id = entry_list[i].id

\* C1 witness: a rehash has left a run of two different keys next to an
\* entry of another bucket.
GroupingWitness ==
  /\ call.op = "SetTableSize"
  /\ pre.size # table_size
  /\ \E i \in Positions : \E j \in Positions : \E m \in Positions :
       /\ i # j
       /\ entry_list[i].id = entry_list[j].id
       /\ entry_list[i].key # entry_list[j].key
       /\ entry_list[m].id # entry_list[i].id

\* C2: for every key, the lookup (FindEntry) succeeds exactly when an entry
\* with that key is in the list and then yields the first such entry in
\* list order; a Find call returns accordingly.
LookupFindsFirst ==
  /\ \A key \in Keys :
       LET f == FindEntry(Table, key)
       IN  /\ ~f.t.ub
           /\ IF Stored(entry_list, key)
              THEN f.node = FirstWith(entry_list, key)
              ELSE f.node = NULLPTR
  /\ call.op = "Find" =>
       /\ ret.hit = Stored(entry_list, call.key)
       /\ ret.hit =>
            ret.out = entry_list[FirstWith(entry_list, call.key)].data

\* C2 witness: a Find hit on an entry that is not its bucket's head, while
\* another key misses.
LookupWitness ==
  /\ call.op = "Find"
  /\ ret.hit
  /\ FirstWith(entry_list, call.key) > cell_array[BinOf(call.key)]
  /\ \E key \in Keys : ~Stored(entry_list, key)

\* C3: entry_count is the number of entries in the entry list.
CountIsListLength == entry_count = Len(entry_list)

\* C3 witness: a Remove has found no matching key in a non-empty bucket of
\* a table that holds entries.
CountWitness ==
  /\ call.op = "Remove"
  /\ ret.status = "ok"
  /\ ~ret.hit
  /\ cell_array[BinOf(call.key)] # NULLPTR
  /\ entry_count > 1

\* C4: every entry's cached bucket id is the hash of its key under the
\* current table_size.
CachedIdIsHash ==
  \A i \in Positions : entry_list[i].id = BinOf(entry_list[i].key)

\* C4 witness: SetTableSize has changed the size and with it the bucket of
\* a stored key.
CachedIdWitness ==
  /\ call.op = "SetTableSize"
  /\ pre.size # table_size
  /\ \E i \in Positions :
       HashKey(entry_list[i].key, pre.size) # entry_list[i].id

\* C5: every non-empty slot of the bucket array points at a node that is in
\* the entry list and whose cached bucket id is the slot's index.
CellsPointIntoBucket ==
  /\ DOMAIN cell_array = 0 .. table_size - 1
  /\ \A b \in DOMAIN cell_array :
       cell_array[b] # NULLPTR =>
         /\ cell_array[b] \in Positions
         /\ entry_list[cell_array[b]].id = b

\* C5 witness: Remove has deleted a bucket's head and the bucket still has
\* an entry.
CellsWitness ==
  /\ call.op = "Remove"
  /\ ret.hit
  /\ cell_array[BinOf(call.key)] # NULLPTR
  /\ \A i \in Positions : entry_list[i].key # call.key

\* The number of entries with this key.
KeyCount(list, key) == Cardinality({i \in 1 .. Len(list) : list[i].key = key})

\* The (key, value) pairs of the list, with their multiplicities.
PairBag(list) ==
  [p \in Keys \X Values |->
     Cardinality({i \in 1 .. Len(list) :
                    list[i].key = p[1] /\ list[i].data = p[2]})]

\* C6: SetValue(k, v) is an upsert: afterwards Find(k) returns v; when k was
\* stored the first entry of k is overwritten in place and the number of
\* entries is unchanged, otherwise there is exactly one entry more; the
\* number of entries with key k never grows except from none to one.
SetValueIsUpsert ==
  [][call'.op = "SetValue" =>
       LET key == call'.key
           data == call'.data
       IN  /\ FindResultOn(Table', key) = <<TRUE, data>>
           /\ IF Stored(entry_list, key)
              THEN /\ entry_list' =
                        [entry_list EXCEPT
                           ![FirstWith(entry_list, key)].data = data]
                   /\ entry_count' = entry_count
              ELSE /\ Len(entry_list') = Len(entry_list) + 1
                   /\ entry_count' = entry_count + 1
           /\ KeyCount(entry_list', key) =
                IF Stored(entry_list, key) THEN KeyCount(entry_list, key)
                ELSE 1]_vars

\* C6 witness: SetValue has overwritten, in place, the value of a key whose
\* entry is not its bucket's head.
SetValueWitness ==
  /\ call.op = "SetValue"
  /\ entry_count = pre.count
  /\ FirstWith(entry_list, call.key) > cell_array[BinOf(call.key)]

\* C7: with k not stored, after Add(k, v1) and Add(k, v2) Find(k) returns v2;
\* after one Remove(k) it returns v1; after a second Remove(k) k is absent;
\* whatever the table held before the first Add.
AddShadows ==
  /\ shadow.phase = 2 => FindResult(shadow.key) = <<TRUE, shadow.v2>>
  /\ shadow.phase = 3 => FindResult(shadow.key) = <<TRUE, shadow.v1>>
  /\ shadow.phase = 4 =>
       /\ FindResult(shadow.key) = <<FALSE>>
       /\ ~Stored(entry_list, shadow.key)

\* C7 witness: the four calls are done, with two different values, and the
\* key's bucket still holds another key.
AddShadowsWitness ==
  /\ shadow.phase = 4
  /\ shadow.v1 # shadow.v2
  /\ \E i \in Positions : entry_list[i].id = BinOf(shadow.key)

\* C8: SetTableSize leaves the multiset of (key, value) pairs and
\* entry_count as they were.
ResizeKeepsPairs ==
  [][call'.op = "SetTableSize" =>
       /\ PairBag(entry_list') = PairBag(entry_list)
       /\ Len(entry_list') = Len(entry_list)
       /\ entry_count' = entry_count]_vars

\* C8 witness: SetTableSize has changed the size of a table that holds the
\* same (key, value) pair twice and another key.
ResizeWitness ==
  /\ call.op = "SetTableSize"
  /\ pre.size # table_size
  /\ \E i \in Positions : \E j \in Positions : \E m \in Positions :
       /\ i # j
       /\ entry_list[i].key = entry_list[j].key
       /\ entry_list[i].data = entry_list[j].data
       /\ entry_list[m].key # entry_list[i].key

\* C9: Remove(k) on an empty bucket fails its assertion: the call does not
\* return, and the entry list, the bucket slots and entry_count are as
\* before.
RemoveEmptyBucketAborts ==
  [][(call'.op = "Remove" /\ cell_array[HashKey(call'.key, table_size)] = NULLPTR)
       => /\ ret'.status = "abort"
          /\ UNCHANGED <<entry_list, cell_array, entry_count>>]_vars

\* C9 witness: the assertion has failed on a table that holds entries.
RemoveAbortWitness ==
  /\ call.op = "Remove"
  /\ ret.status = "abort"
  /\ entry_count > 0

\* Remove(key) is called with a non-empty bucket whose run has no entry of
\* that key.
RemoveMisses(key) ==
  LET bin == HashKey(key, table_size)
  IN  /\ cell_array[bin] # NULLPTR
      /\ \A i \in Positions : entry_list[i].id = bin => entry_list[i].key # key

\* C10 as stated: such a Remove returns a default value, without a failure
\* signal, and changes neither list, slots nor entry_count.
RemoveMissReturnsDefault ==
  [][(call'.op = "Remove" /\ RemoveMisses(call'.key))
       => /\ ret'.status = "ok"
          /\ ret'.out = DefaultValue
          /\ UNCHANGED <<entry_list, cell_array, entry_count>>]_vars

\* C10 amended: such a Remove returns without a failure signal, what it
\* returns is the never assigned out_data (any value of a built-in
\* DATA_TYPE), and list, slots and entry_count are unchanged.
RemoveMissIsSilent ==
  [][(call'.op = "Remove" /\ RemoveMisses(call'.key))
       => /\ ret'.status = "ok"
          /\ ~ret'.hit
          /\ ret'.out \in Indeterminate
          /\ UNCHANGED <<entry_list, cell_array, entry_count>>]_vars

\* C10 witness: a Remove has scanned a run of two entries without a match
\* and returned a value that is not the default.
RemoveMissWitness ==
  /\ call.op = "Remove"
  /\ ret.status = "ok"
  /\ ~ret.hit
  /\ ret.out # DefaultValue
  /\ \E i \in Positions : \E j \in Positions :
       i # j /\ entry_list[i].id = BinOf(call.key)
             /\ entry_list[j].id = BinOf(call.key)

\* No thread is inside a call.
BetweenCalls == \A p \in Threads : thr[p].pc \in {"idle", "done"}

\* C11: with every call made under the one lock, held for the whole call,
\* whenever one writer's and two readers' calls have all completed the
\* grouping invariant, the entry count, the cached bucket ids and the bucket
\* slots are right, and no call has used a pointer that is not a live node.
LockedCallsKeepInvariants ==
  /\ \A p \in Threads : thr[p].pc # "undefined"
  /\ BetweenCalls =>
       /\ GroupingInvariant
       /\ CountIsListLength
       /\ CachedIdIsHash
       /\ CellsPointIntoBucket

\* C11 witness: a reader's Find has completed with a hit, under the lock, on
\* a full table that the writer built, with two entries in one bucket and an
\* entry in another.
LockedCallsWitness ==
  /\ lock = "r1"
  /\ thr["r1"].pc = "done"
  /\ thr["r1"].op = "Find"
  /\ thr["r1"].out # <<FALSE>>
  /\ Len(entry_list) = MaxEntries
  /\ \E i \in Positions : \E j \in Positions : \E m \in Positions :
       /\ i # j
       /\ entry_list[i].id = entry_list[j].id
       /\ entry_list[m].id # entry_list[i].id

\* Reader p's Find has returned something else than Find returns when it
\* runs alone on the table.
WrongFind(p) ==
  /\ thr[p].pc = "done"
  /\ thr[p].out # FindResult(thr[p].key)

\* C12: with no lock, a Find that no other reader's cursor step has
\* disturbed returns what it returns alone; a disturbed Find may return
\* something else (the witness), and what it then returns is a miss for a
\* stored key or the value of another entry than the key's first.
UndisturbedFindIsRight ==
  \A p \in Readers :
    WrongFind(p) =>
      /\ ~thr[p].alone
      /\ Stored(entry_list, thr[p].key)
      /\ \/ thr[p].out = <<FALSE>>
         \/ \E i \in Positions :
              /\ i # FirstWith(entry_list, thr[p].key)
              /\ thr[p].out = <<TRUE, entry_list[i].data>>

\* C12 witness: two Finds have interleaved; one has missed a stored key, the
\* other has returned the value of an entry with another key.
RacingFindsWitness ==
  /\ WrongFind("r1")
  /\ thr["r1"].out = <<FALSE>>
  /\ WrongFind("r2")
  /\ \E i \in Positions :
       /\ entry_list[i].key # thr["r2"].key
       /\ thr["r2"].out = <<TRUE, entry_list[i].data>>
       /\ \A j \in Positions :
            entry_list[j].key = thr["r2"].key =>
              entry_list[j].data # entry_list[i].data

\* The keys that have an entry.
StoredKeys == {entry_list[i].key : i \in Positions}

\* C13: NearMatch(q) returns the empty string when every stored key is at
\* an edit distance of length(q) or more from q (so whenever q is empty or
\* the dictionary is), and otherwise a stored key at less than length(q)
\* whose distance is the least of all stored keys.
NearMatchBeatsLength ==
  call.op = "NearMatch" =>
    LET name == call.key
        best_match == ret.out
    IN  IF \A key \in StoredKeys : EditDistance(name, key) >= Len(name)
        THEN best_match = <<>>
        ELSE /\ best_match \in StoredKeys
             /\ EditDistance(name, best_match) < Len(name)
             /\ \A key \in StoredKeys :
                  EditDistance(name, best_match) <= EditDistance(name, key)

\* C13 witness: NearMatch of a non-empty string has returned the empty
\* string although a stored key is at a distance of exactly the string's
\* length.
NearMatchWitness ==
  /\ call.op = "NearMatch"
  /\ call.key # <<>>
  /\ ret.out = <<>>
  /\ \E key \in StoredKeys : EditDistance(call.key, key) = Len(call.key)

\* C14: of several stored keys at the least distance NearMatch returns the
\* smallest in the order of strings, whatever the order of the entry list
\* (which the order of insertion and the table size decide).
NearMatchTieIsSmallest ==
  (call.op = "NearMatch" /\ ret.out # <<>>) =>
    \A key \in StoredKeys :
      EditDistance(call.key, key) = EditDistance(call.key, ret.out)
        => ~TextLess(key, ret.out)

\* C14 witness: NearMatch has returned a key that has a greater key, at the
\* same distance, before it in the entry list.
NearMatchTieWitness ==
  /\ call.op = "NearMatch"
  /\ \E i \in Positions : \E j \in Positions :
       /\ i < j
       /\ entry_list[j].key = ret.out
       /\ TextLess(ret.out, entry_list[i].key)
       /\ EditDistance(call.key, entry_list[i].key)
            = EditDistance(call.key, ret.out)

\* C15 as stated: a Load whose text after the separator is no number is
\* reported as an error and leaves the entries, the slots and the count as
\* they were.
LoadRejectsUnconvertible ==
  [][(call'.op = "Load" /\ ~IsNumber(AfterPop(call'.key, Assign)))
       => /\ ret'.status = "error"
          /\ UNCHANGED <<entry_list, cell_array, entry_count>>]_vars

\* The number of separators in the text.
Assigns(text) == Cardinality({i \in 1 .. Len(text) : text[i] = Assign})

\* C16: Load(text) takes as key the text before its first separator (all
\* of it when it has none) and upserts the key with the value converted
\* from the rest: afterwards Find(key) returns that value; a key that was
\* stored keeps its number of entries, a new key adds exactly one.
LoadIsUpsert ==
  [][call'.op = "Load" =>
       LET text == call'.key
           key == Popped(text, Assign)
       IN  /\ \A i \in 1 .. Len(key) : key[i] # Assign
           /\ \/ key = text /\ Assigns(text) = 0
              \/ /\ text = key \o <<Assign>>
                             \o SubSeq(text, Len(key) + 2, Len(text))
                 /\ call'.data
                      \in Convert(SubSeq(text, Len(key) + 2, Len(text)))
           /\ FindResultOn(Table', key) = <<TRUE, call'.data>>
           /\ IF Stored(entry_list, key)
              THEN /\ entry_count' = entry_count
                   /\ Len(entry_list') = Len(entry_list)
              ELSE /\ entry_count' = entry_count + 1
                   /\ Len(entry_list') = Len(entry_list) + 1
           /\ KeyCount(entry_list', key) =
                IF Stored(entry_list, key) THEN KeyCount(entry_list, key)
                ELSE 1]_vars

\* C16 witness: a Load of a text with two separators has overwritten the
\* value of its key, which is not its bucket's head, and added no entry.
LoadWitness ==
  /\ call.op = "Load"
  /\ Assigns(call.key) = 2
  /\ entry_count = pre.count
  /\ FirstWith(entry_list, Popped(call.key, Assign))
       > cell_array[BinOf(Popped(call.key, Assign))]

FailedResizeRestores ==
  ret.status = "failed" =>
    /\ table_size = pre.size
    /\ cell_array = pre.cells
    /\ entry_list = pre.list

\* The values of the entry list, in its order.
RECURSIVE DataOf(_)
DataOf(list) ==
  IF list = <<>> THEN <<>> ELSE <<Head(list).data>> \o DataOf(Tail(list))

Reversed(list) == [i \in 1 .. Len(list) |-> list[Len(list) + 1 - i]]

\* C19: AsLists fills the key list in ascending (non-decreasing) order; both
\* lists have entry_count elements; and the (key, value) pairs at equal
\* positions are, with their multiplicities, the pairs of the entries.
AsListsSortsPairs ==
  call.op = "AsLists" =>
    LET key_list == ret.out[1]
        value_list == ret.out[2]
    IN  /\ Len(key_list) = entry_count
        /\ Len(value_list) = entry_count
        /\ \A i \in 1 .. Len(key_list) : \A j \in 1 .. Len(key_list) :
             i < j => ~TextLess(key_list[j], key_list[i])
        /\ \A p \in Positions :
             LET key == entry_list[p].key
                 data == entry_list[p].data
             IN  Cardinality({i \in 1 .. Len(key_list) :
                                key_list[i] = key /\ value_list[i] = data})
                   = Cardinality({i \in Positions :
                                    entry_list[i].key = key
                                      /\ entry_list[i].data = data})

\* C19 witness: AsLists has run on a table whose entry list holds a greater
\* key before a smaller one, with different values.
AsListsWitness ==
  /\ call.op = "AsLists"
  /\ \E i \in Positions : \E j \in Positions :
       /\ i < j
       /\ TextLess(entry_list[j].key, entry_list[i].key)
       /\ entry_list[i].data # entry_list[j].data

ClearAllEmpties ==
  call.op = "ClearAll" =>
    /\ ret.status = "ok"
    /\ entry_list = <<>>
    /\ \A b \in DOMAIN cell_array : cell_array[b] = NULLPTR
    /\ entry_count = 0
    /\ \A key \in Keys : FindResult(key) = <<FALSE>>
    /\ table_size = pre.size
    /\ Table = NewTable(pre.size)

\* C21 witness: ClearAll has emptied a full table of more than one bucket.
ClearAllWitness ==
  /\ call.op = "ClearAll"
  /\ pre.count = MaxEntries
  /\ pre.size > 1

\* ---------------------------------------------------------------------------
\* An int-keyed table over the whole range of a narrow int: the keys run from
\* the least int to the greatest one, the sizes over the positive ints.
\* ---------------------------------------------------------------------------
MaxInt == 7
MaxHashed == 1

IntMin == -(MaxInt + 1)
Ints == IntMin .. MaxInt
HashSizes == 1 .. MaxInt

\* cell_array[bin] is an element of the array.
InRange(t, key) == HashKey(key, t.size) \in 0 .. (t.size - 1)

\* The call's result, with the remainder and the bucket index it computed;
\* an index outside of cell_array makes the call undefined.
HashBecomes(t, c, r) ==
  /\ entry_list' = t.list
  /\ cell_array' = t.cells
  /\ list_it' = t.it
  /\ entry_count' = t.count
  /\ table_size' = t.size
  /\ call' = c
  /\ ret' = [r EXCEPT !.status = IF t.ub \/ ~InRange(Table, c.key)
                                 THEN "undefined" ELSE @]
  /\ pre' = [size |-> table_size, count |-> entry_count,
             rem |-> TruncRem(c.key, table_size),
             bin |-> HashKey(c.key, table_size)]
  /\ shadow' = NoShadow
  /\ UNCHANGED <<HASH_TYPE, lock, thr, backup>>

InitHash ==
  \E size \in HashSizes :
    /\ Constructed(size)
    /\ HASH_TYPE = "int"
    /\ Quiet

HashAdd ==
  \E key \in Ints :
    /\ Running
    /\ Len(entry_list) < MaxHashed
    /\ HashBecomes(IF InRange(Table, key) THEN AddEntry(Table, key, 1)
                   ELSE Table,
                   [NoCall EXCEPT !.op = "Add", !.key = key, !.data = 1], Ok)

HashFind ==
  \E key \in Ints :
    /\ Running
    /\ LET f == IF InRange(Table, key) THEN FindEntry(Table, key)
                ELSE [t |-> Table, node |-> NULLPTR]
       IN  HashBecomes(f.t, [NoCall EXCEPT !.op = "Find", !.key = key],
                       IF f.node = NULLPTR THEN Ok
                       ELSE [Ok EXCEPT !.hit = TRUE,
                                       !.out = f.t.list[f.node].data])

HashRemove ==
  \E key \in Ints :
    /\ Running
    /\ LET r == IF InRange(Table, key)
                THEN RemoveEntry(Table, key, DefaultValue)
                ELSE [status |-> "ok", t |-> Table, out |-> DefaultValue,
                      hit |-> FALSE]
       IN  HashBecomes(r.t, [NoCall EXCEPT !.op = "Remove", !.key = key],
                       [status |-> r.status, out |-> r.out, hit |-> r.hit])

NextHash == HashAdd \/ HashFind \/ HashRemove

SpecHash == InitHash /\ [][NextHash]_vars

\* C22: for every int key, the least int and the negative keys included, and
\* every table size of 1 or more, the truncated remainder key % table_size
\* lies strictly between -table_size and table_size (so abs is applied to a
\* value it can negate), the hash is an index of cell_array, no call of Add,
\* Find or Remove reads or writes outside of the array, and the key -k, where
\* it is an int, hashes to the bucket of k: an entry stored under -k carries
\* the bucket id that the call computed for k.
HashIsBucketIndex ==
  call.op \in {"Add", "Find", "Remove"} =>
    /\ pre.rem > -pre.size
    /\ pre.rem < pre.size
    /\ pre.rem > IntMin
    /\ pre.bin \in 0 .. (pre.size - 1)
    /\ ret.status # "undefined"
    /\ (-call.key) \in Ints => HashKey(-call.key, pre.size) = pre.bin
    /\ \A pos \in Positions :
         entry_list[pos].key \in {call.key, -call.key}
           => entry_list[pos].id = pre.bin

\* C22 witness: Find of a negative key on a table that holds the opposite
\* key, in a bucket other than bucket 0.
HashWitness ==
  /\ call.op = "Find"
  /\ call.key < 0
  /\ pre.bin > 0
  /\ \E pos \in Positions : entry_list[pos].key = -call.key

\* ---------------------------------------------------------------------------
\* One caller, each call one turn of its loop at a time.  The caller's locals
\* are thr["w"]; turns counts the turns of the call's loop.
\* ---------------------------------------------------------------------------
Caller ==
  [pc |-> "idle", op |-> "none", key |-> 0, data |-> DefaultValue, bin |-> 0,
   out |-> <<>>, alone |-> TRUE, size |-> 0, turns |-> 0]

Turned(s) == [s EXCEPT !.turns = @ + 1]

\* One step of Remove.  "remove": the assertion, list_it.Set and the head
\* branch; "scan": one evaluation of the condition of the while loop, with
\* its list_it.Next(), and the loop's body.
RemoveStep(t, s) ==
  IF s.pc = "remove"
  THEN IF ~RemoveAssertion(t, s.key) THEN Moved(t, s, "abort")
       ELSE LET bin == HashKey(s.key, t.size)
                t0 == ItSet(t, t.cells[bin])
            IN  IF ~IsNode(t0, t0.it) THEN Returned(Undefined(t0), s, <<FALSE>>)
                ELSE IF Cur(t0).key = s.key
                THEN Returned(RemoveFound(t, s.key, DefaultValue).t, s,
                              <<TRUE, Cur(t0).data>>)
                ELSE Moved(t0, [s EXCEPT !.bin = bin], "scan")
  ELSE LET t1 == ItNext(t)
       IN  IF t1.ub THEN Returned(t1, Turned(s), <<FALSE>>)
           ELSE IF GetIsNull(t1) \/ Cur(t1).id # s.bin
           THEN Returned(t1, Turned(s), <<FALSE>>)
           ELSE IF Cur(t1).key = s.key
           THEN Returned([ListRemove(t1) EXCEPT !.count = @ - 1], Turned(s),
                         <<TRUE, Cur(t1).data>>)
           ELSE Moved(t1, Turned(s), "scan")

\* One step of ClearAll.  "clear": list_it.Reset(); "loop": the condition
\* of the while loop, with its list_it.Next(), and delete list_it.Remove();
\* "end": entry_count = 0 and cell_array.SetAll(NULL).
ClearStep(t, s) ==
  IF s.pc = "clear" THEN Moved(ItReset(t), s, "loop")
  ELSE IF s.pc = "loop"
  THEN LET t1 == ItNext(t)
       IN  IF t1.ub \/ GetIsNull(t1) THEN Moved(t1, s, "end")
           ELSE Moved(ListRemove(t1), Turned(s), "loop")
  ELSE Returned([t EXCEPT !.count = 0, !.cells = [b \in DOMAIN @ |-> NULLPTR]],
                s, <<>>)

\* A turn that re-inserts the first entry of backup_list without popping it.
ResizeTurnKeepsEntry(t, s, backup_list) ==
  LET cur_entry == Head(backup_list)
      bin == HashKey(cur_entry.key, t.size)
  IN  [t |-> PlaceEntry(t, Rehashed(cur_entry, bin), bin),
       s |-> Turned(s), b |-> backup_list]

\* One turn of the loop of SetTableSize: backup_list.Pop(), the new id and
\* the insertion.
ResizeTurn(t, s, backup_list) ==
  LET cur_entry == Head(backup_list)
      bin == HashKey(cur_entry.key, t.size)
  IN  [t |-> PlaceEntry(t, Rehashed(cur_entry, bin), bin),
       s |-> Turned(s), b |-> Tail(backup_list)]

\* One step of SetTableSize.  "resize": the new size, the cleared cells and
\* backup_list.Transfer(entry_list); "rehash": the condition of the while
\* loop and one turn of it.
ResizeTableStep(t, s, backup_list) ==
  IF s.pc = "resize"
  THEN [t |-> TransferOut([t EXCEPT
                             !.size = s.size,
                             !.cells = [b \in 0 .. s.size - 1 |-> NULLPTR]]),
        s |-> [s EXCEPT !.pc = "rehash"], b |-> t.list]
  ELSE IF backup_list = <<>>
  THEN [t |-> t, s |-> [s EXCEPT !.pc = "done"], b |-> backup_list]
  ELSE ResizeTurn(t, s, backup_list)

\* One step of the call in progress; a turn of the loop of FindEntry is its
\* list_it.Next().
CallStep(t, s, backup_list) ==
  IF s.op = "Find"
  THEN LET r == FindEntryStep(t, s)
       IN  [t |-> r.t, s |-> IF s.pc = "next" THEN Turned(r.s) ELSE r.s,
            b |-> backup_list]
  ELSE IF s.op = "Remove"
  THEN LET r == RemoveStep(t, s) IN [t |-> r.t, s |-> r.s, b |-> backup_list]
  ELSE IF s.op = "ClearAll"
  THEN LET r == ClearStep(t, s) IN [t |-> r.t, s |-> r.s, b |-> backup_list]
  ELSE ResizeTableStep(t, s, backup_list)

\* The caller has made a step.
CallerBecomes(t, s, backup_list) ==
  /\ entry_list' = t.list
  /\ cell_array' = t.cells
  /\ list_it' = t.it
  /\ entry_count' = t.count
  /\ table_size' = t.size
  /\ thr' = [thr EXCEPT !["w"] = IF t.ub THEN [s EXCEPT !.pc = "undefined"]
                                 ELSE s]
  /\ backup' = backup_list
  /\ UNCHANGED <<call, ret, shadow, HASH_TYPE, lock>>

InCall == thr["w"].pc # "idle"

Ended == thr["w"].pc \in {"done", "abort", "undefined"}

InitSteps ==
  \E size \in TableSizes :
    /\ Constructed(size)
    /\ HASH_TYPE = "int"
    /\ lock = "free"
    /\ thr = [p \in Threads |-> IF p = "w" THEN Caller ELSE Idle]
    /\ backup = <<>>

StepsAdd ==
  \E key \in Keys :
    /\ ~InCall
    /\ Len(entry_list) < MaxShared
    /\ CallerBecomes(AddEntry(Table, key, 1), thr["w"], backup)
    /\ UNCHANGED pre

\* The caller enters Find, Remove, ClearAll or SetTableSize.
StepsBegin ==
  /\ ~InCall
  /\ \/ \E key \in Keys :
          \/ CallerBecomes(Table, [Caller EXCEPT !.pc = "find", !.op = "Find",
                                                 !.key = key], backup)
          \/ CallerBecomes(Table, [Caller EXCEPT !.pc = "remove",
                                                 !.op = "Remove",
                                                 !.key = key], backup)
     \/ CallerBecomes(Table, [Caller EXCEPT !.pc = "clear", !.op = "ClearAll"],
                      backup)
     \/ \E _hash \in TableSizes :
          CallerBecomes(Table, [Caller EXCEPT !.pc = "resize",
                                              !.op = "SetTableSize",
                                              !.size = _hash], backup)
  /\ pre' = [size |-> table_size, count |-> entry_count,
             list |-> entry_list, cells |-> cell_array]

\* The next step of the call; a call makes no more turns than one more than
\* the list had entries when it began.
StepsTurn ==
  /\ InCall
  /\ ~Ended
  /\ thr["w"].turns <= Len(pre.list)
  /\ LET r == CallStep(Table, thr["w"], backup)
     IN  CallerBecomes(r.t, r.s, r.b)
  /\ UNCHANGED pre

\* The call returns.
StepsReturn ==
  /\ thr["w"].pc = "done"
  /\ CallerBecomes(Table, Caller, backup)
  /\ UNCHANGED pre

NextSteps == StepsAdd \/ StepsBegin \/ StepsTurn \/ StepsReturn

\* The calling thread goes on with the call it is in.
SpecSteps == InitSteps /\ [][NextSteps]_vars /\ WF_vars(StepsTurn)

\* The entries of a list that belong to a bucket.
RunLength(list, bin) ==
  Cardinality({pos \in 1 .. Len(list) : list[pos].id = bin})

\* The loop of the call in progress has made no more turns than it may, and
\* a call that has ended has made the turns it must.
TurnsBounded ==
  LET s == thr["w"]
  IN  InCall =>
        /\ s.pc # "undefined"
        /\ s.op \in {"Find", "Remove"}
             => s.turns <= RunLength(pre.list, HashKey(s.key, pre.size))
        /\ s.op = "ClearAll" =>
             /\ s.turns + Len(entry_list) = Len(pre.list) \/ s.pc = "done"
             /\ s.pc \in {"end", "done"} => s.turns = Len(pre.list)
        /\ s.op = "SetTableSize" =>
             /\ s.pc = "resize" \/ s.turns + Len(backup) = pre.count
             /\ s.pc = "resize" \/ s.turns = Len(entry_list)
             /\ s.pc = "done" => backup = <<>> /\ s.turns = pre.count

\* C23: every call of Find, Remove, ClearAll and SetTableSize that the caller
\* starts ends (Remove at its assertion when the key's bucket is empty).
\* The scans of Find and Remove make at most as many turns as the run of the
\* key's bucket has entries, ClearAll makes one turn per entry and ends with
\* the list empty, and SetTableSize makes one turn, with one re-insertion,
\* per entry and ends with backup_list empty.
CallsComplete == []TurnsBounded /\ (InCall ~> Ended)

\* C23 witness: SetTableSize has ended after one turn for each entry of a
\* list as long as the caller fills it.
CallsCompleteWitness ==
  /\ thr["w"].op = "SetTableSize"
  /\ thr["w"].pc = "done"
  /\ thr["w"].turns = MaxShared

\* C24: SetTableSize changes the result of Find for no key: every key is
\* found, with the same value, after the resize exactly when it was before
\* it, the keys that Add stored more than once included.
ResizeKeepsFind ==
  [][call'.op = "SetTableSize" /\ ret'.status = "ok"
       => \A key \in Keys : FindResultOn(Table', key) = FindResult(key)]_vars

\* The calls that write to the table.  Find writes to list_it alone, and
\* each of these calls sets list_it before it reads it.
NextWriters == Add \/ SetValue \/ Remove \/ SetTableSize \/ ClearAll

SpecWriters == Init /\ [][NextWriters]_vars

\* C25: Remove(k) of a stored key returns the value that Find(k) gave just
\* before the call; it takes out the first entry of k and no other, so that
\* entry_count goes down by one and the other entries keep their order; the
\* result of Find(j) is the same for every other key j; and afterwards the
\* slot of k's bucket is empty when no entry of the bucket is left, and
\* otherwise holds the position of the first entry of the bucket's run.
RemoveIsExact ==
  [][(call'.op = "Remove" /\ Stored(entry_list, call'.key)) =>
       LET key == call'.key
           bin == BinOf(key)
           run == {pos \in 1 .. Len(entry_list') : entry_list'[pos].id = bin}
       IN  /\ ret'.status = "ok"
           /\ ret'.hit
           /\ FindResult(key) = <<TRUE, ret'.out>>
           /\ entry_count' = entry_count - 1
           /\ entry_list' = RemoveAt(entry_list, FirstWith(entry_list, key))
           /\ table_size' = table_size
           /\ \A j \in Keys \ {key} : FindResultOn(Table', j) = FindResult(j)
           /\ (run = {}) = (cell_array'[bin] = NULLPTR)
           /\ run # {} =>
                /\ cell_array'[bin] \in run
                /\ \A pos \in run : cell_array'[bin] <= pos]_vars

\* C25 witness: Remove has taken out the third entry of a run of three; the
\* iterator is left on the second one, the slot on the first.
RemoveExactWitness ==
  /\ call.op = "Remove"
  /\ ret.status = "ok"
  /\ ret.hit
  /\ cell_array[BinOf(call.key)] > 0
  /\ list_it > cell_array[BinOf(call.key)]
  /\ entry_count = MaxEntries - 1

====
